---- MODULE Spec2Model ----
(***************************************************************************)
(* ResumeFit: the text-matching core (analyzer/ml) and the views, model    *)
(* and PDF extraction around it.                                           *)
(*   text_processing.clean_text     normalisation for vectorisation        *)
(*   skills.extract_skills          vocabulary matching with \b...\b       *)
(*   pipeline.ResumeMatcher         TF-IDF + cosine on a shared vectorizer *)
(* Texts are sequences of one-character strings; Python's None is the      *)
(* value None below.                                                       *)
(***************************************************************************)
EXTENDS Integers, Sequences, FiniteSets, TLC

VARIABLES
    ct,          \* a stand-alone clean_text call: [pc, text, ret, again]
    sk,          \* a stand-alone extract_skills call: [pc, text, vocabulary, ret]
    vectorizer,  \* ResumeMatcher._instance._vectorizer: [vocabulary_, idf_]
    call,        \* per request thread: the analyze/compute_similarity frame
    req,         \* per request thread: the view being served and its response
    db,          \* the AnalysisResult table, in order of primary key
    pdf,         \* a stand-alone extract_text_from_pdf call: [pc, file, out]
    build,       \* the installed PyMuPDF: [fitz_fitz], fixed for a run
    cls,         \* the class ResumeMatcher, the objects made and the callers
    band         \* a stand-alone score_label/score_color read

\* the state outside the text-matching core
site == <<req, db, pdf, build, cls, band>>

vars == <<ct, sk, vectorizer, call, site>>

-----------------------------------------------------------------------------
(* Characters                                                              *)

None == <<"<None>">>

AsciiLower == {"a","b","c","d","e","f","g","h","i","j","k","l","m",
               "n","o","p","q","r","s","t","u","v","w","x","y","z"}
AsciiDigit == {"0","1","2","3","4","5","6","7","8","9"}
Whitespace == {" ", "\n", "\t"}

\* str.lower(), on the characters the model draws texts from
lower_char(ch) ==
    CASE ch = "T" -> "t"
      [] ch = "R" -> "r"
      [] ch = "G" -> "g"
      [] OTHER    -> ch

lower(s) == [i \in 1..Len(s) |-> lower_char(s[i])]

\* str.isalpha() / str.isdigit() on lowercased characters: Unicode letters
IsLetter(ch) == ch \in AsciiLower \cup {"é"}
IsDigit(ch)  == ch \in AsciiDigit

\* regex \w on str patterns: Unicode alphanumerics and the underscore
IsWordChar(ch) == IsLetter(ch) \/ IsDigit(ch) \/ ch = "_"

\* code points, for Python's ordering of str
Ord(ch) ==
    CASE ch = "\t" -> 9   [] ch = "\n" -> 10  [] ch = " " -> 32
      [] ch = "#" -> 35   [] ch = "+" -> 43   [] ch = "-" -> 45
      [] ch = "." -> 46   [] ch = "/" -> 47   [] ch = "1" -> 49
      [] ch = "R" -> 82   [] ch = "T" -> 84   [] ch = "_" -> 95
      [] ch = "c" -> 99   [] ch = "g" -> 103  [] ch = "o" -> 111
      [] ch = "r" -> 114  [] ch = "t" -> 116  [] ch = "é" -> 233

\* re.sub(r'[^...]', ' ', text): every character outside `kept' becomes a space
sub_not_in(kept, s) == [i \in 1..Len(s) |-> IF s[i] \in kept THEN s[i] ELSE " "]

\* str.replace(old, ' ') for a one-character old
replace_char(old, s) == [i \in 1..Len(s) |-> IF s[i] = old THEN " " ELSE s[i]]

RECURSIVE lstrip(_)
lstrip(s) == IF s # <<>> /\ s[1] \in Whitespace THEN lstrip(Tail(s)) ELSE s

RECURSIVE rstrip(_)
rstrip(s) ==
    IF s # <<>> /\ s[Len(s)] \in Whitespace
    THEN rstrip(SubSeq(s, 1, Len(s) - 1)) ELSE s

\* str.strip()
strip(s) == rstrip(lstrip(s))

\* re.sub(r'\s+', ' ', text): each maximal run of whitespace becomes one space
RECURSIVE collapse_whitespace(_)
collapse_whitespace(s) ==
    IF s = <<>> THEN <<>>
    ELSE IF s[1] \in Whitespace
         THEN <<" ">> \o collapse_whitespace(lstrip(s))
         ELSE <<s[1]>> \o collapse_whitespace(Tail(s))

-----------------------------------------------------------------------------
(* text_processing.clean_text                                              *)

CleanKept == AsciiLower \cup AsciiDigit \cup Whitespace \cup {"+", "#", "."}

\* the same with the whitespace collapse done before the substitution
clean_text_collapse_first(text) ==
    IF text = None \/ text = <<>> THEN <<>>
    ELSE strip(sub_not_in(CleanKept, collapse_whitespace(
                 replace_char("\t", replace_char("\n", lower(text))))))

\* the same without the '\s+' collapse
clean_text_no_collapse(text) ==
    IF text = None \/ text = <<>> THEN <<>>
    ELSE strip(sub_not_in(CleanKept,
                 replace_char("\t", replace_char("\n", lower(text)))))

clean_text(text) ==
    IF text = None \/ text = <<>> THEN <<>>
    ELSE strip(collapse_whitespace(sub_not_in(CleanKept,
                 replace_char("\t", replace_char("\n", lower(text))))))

-----------------------------------------------------------------------------
(* skills.extract_skills                                                   *)

\* SKILL_VOCABULARY, in source order, restricted to the entries that can be
\* spelled with the characters the model draws texts from
SKILL_VOCABULARY == << <<"c","+","+">>, <<"c","#">>, <<"g","o">>, <<"r">> >>

\* vocabulary=None
VocabNone == <<None>>

MatchKept == AsciiLower \cup AsciiDigit \cup Whitespace \cup {"+", "#", ".", "/"}

normalize_for_matching(text) ==
    strip(collapse_whitespace(sub_not_in(MatchKept, lower(text))))

\* regex \b at the gap before position k (1..Len(s)+1) of s
WordBoundary(s, k) ==
    LET w(j) == j \in 1..Len(s) /\ IsWordChar(s[j])
    IN  w(k - 1) # w(k)

\* re.search(r'\b' + re.escape(p) + r'\b', s)
search_word(p, s) ==
    \E i \in 1..(Len(s) + 1) :
        /\ i + Len(p) - 1 <= Len(s)
        /\ SubSeq(s, i, i + Len(p) - 1) = p
        /\ WordBoundary(s, i)
        /\ WordBoundary(s, i + Len(p))

\* a < b in Python's ordering of str (by code point, shorter prefix first)
RECURSIVE StrLess(_, _)
StrLess(a, b) ==
    IF b = <<>> THEN FALSE
    ELSE IF a = <<>> THEN TRUE
    ELSE IF a[1] # b[1] THEN Ord(a[1]) < Ord(b[1])
    ELSE StrLess(Tail(a), Tail(b))

\* sorted(S) for a set S of str
RECURSIVE sorted(_)
sorted(S) ==
    IF S = {} THEN <<>>
    ELSE LET m == CHOOSE x \in S : \A y \in S \ {x} : StrLess(x, y)
         IN  <<m>> \o sorted(S \ {m})

\* set(list)
set(l) == {l[i] : i \in 1..Len(l)}

\* the same returning the matches in vocabulary order, neither sorted nor
\* deduplicated
extract_skills_unsorted(text, vocabulary) ==
    IF text = None \/ text = <<>> THEN <<>>
    ELSE LET vocab == IF vocabulary = VocabNone THEN SKILL_VOCABULARY
                      ELSE vocabulary
             normalized_text == normalize_for_matching(text)
         IN  SelectSeq(vocab, LAMBDA skill :
                          search_word(lower(skill), normalized_text))

extract_skills(text, vocabulary) ==
    IF text = None \/ text = <<>> THEN <<>>
    ELSE LET vocab == IF vocabulary = VocabNone THEN SKILL_VOCABULARY
                      ELSE vocabulary
             normalized_text == normalize_for_matching(text)
             found_skills == SelectSeq(vocab, LAMBDA skill :
                                 search_word(lower(skill), normalized_text))
         IN  sorted(set(found_skills))

-----------------------------------------------------------------------------
(* pipeline.ResumeMatcher: TfidfVectorizer(stop_words='english',           *)
(* max_features=5000, ngram_range=(1, 2), sublinear_tf=True)               *)
(* Scores are in ten-thousandths (round(x, 4)); term weights are in tenths. *)

max_features == 5000

\* the 'english' stop word list, restricted to the words that can be spelled
\* with the characters the model draws texts from
ENGLISH_STOP_WORDS == { <<"g","o">>, <<"o","r">> }

\* the length of the run of word characters that starts s
RECURSIVE word_prefix_len(_)
word_prefix_len(s) ==
    IF s # <<>> /\ IsWordChar(s[1]) THEN 1 + word_prefix_len(Tail(s)) ELSE 0

\* the maximal runs of word characters of s, in order
RECURSIVE word_runs(_)
word_runs(s) ==
    IF s = <<>> THEN <<>>
    ELSE IF ~IsWordChar(s[1]) THEN word_runs(Tail(s))
    ELSE LET n == word_prefix_len(s)
         IN  <<SubSeq(s, 1, n)>> \o word_runs(SubSeq(s, n + 1, Len(s)))

\* token_pattern r'(?u)\b\w\w+\b' on the lowercased document, stop words removed
tokenize(doc) ==
    SelectSeq(word_runs(lower(doc)),
              LAMBDA w : Len(w) >= 2 /\ w \notin ENGLISH_STOP_WORDS)

\* ngram_range=(1, 2): the tokens, then the pairs of adjacent tokens
word_ngrams(tokens) ==
    IF Len(tokens) < 2 THEN tokens
    ELSE tokens \o [i \in 1..(Len(tokens) - 1) |->
                       tokens[i] \o <<" ">> \o tokens[i + 1]]

analyzer(doc) == word_ngrams(tokenize(doc))

term_count(term, terms) == Cardinality({i \in 1..Len(terms) : terms[i] = term})

\* max_features: the terms with the highest corpus frequency, ties by order
limit_features(terms, docs) ==
    LET tf(x) == term_count(x, analyzer(docs[1])) + term_count(x, analyzer(docs[2]))
        above(x) == {y \in terms : tf(y) > tf(x) \/ (tf(y) = tf(x) /\ StrLess(y, x))}
    IN  IF Cardinality(terms) <= max_features THEN terms
        ELSE {x \in terms : Cardinality(above(x)) < max_features}

\* CountVectorizer: the sorted feature names of the two-document corpus
count_vocab(docs) ==
    sorted(limit_features(set(analyzer(docs[1])) \cup set(analyzer(docs[2])), docs))

\* CountVectorizer: the 2 x n term-count matrix
count_matrix(docs, vocab) ==
    [d \in 1..2 |-> [f \in 1..Len(vocab) |-> term_count(vocab[f], analyzer(docs[d]))]]

\* 10 * (ln(3 / (1 + df)) + 1) for a corpus of two documents (smooth_idf)
idf_weight(df) == IF df = 1 THEN 14 ELSE 10

\* 10 * (1 + ln(tf))  (sublinear_tf)
sublinear_tf(tf) ==
    CASE tf = 1 -> 10 [] tf = 2 -> 17 [] tf = 3 -> 21 [] tf = 4 -> 24
      [] tf = 5 -> 26 [] tf = 6 -> 28 [] OTHER -> 30

\* a fit that keeps the idf weights of an already fitted transformer
tfidf_fit_once(X, old) ==
    IF old # <<>> THEN old
    ELSE [f \in 1..Len(X[1]) |->
             idf_weight(Cardinality({d \in 1..2 : X[d][f] > 0}))]

\* TfidfTransformer.fit: the idf weight of every column of X
tfidf_fit(X, old) ==
    [f \in 1..Len(X[1]) |->
        idf_weight(Cardinality({d \in 1..2 : X[d][f] > 0}))]

RECURSIVE isqrt_between(_, _, _)
isqrt_between(lo, hi, n) ==
    IF lo >= hi THEN lo
    ELSE LET mid == (lo + hi + 1) \div 2
         IN  IF mid * mid <= n THEN isqrt_between(mid, hi, n)
             ELSE isqrt_between(lo, mid - 1, n)

isqrt(n) == isqrt_between(0, IF n < 46340 THEN n ELSE 46340, n)

RECURSIVE sum_seq(_)
sum_seq(s) == IF s = <<>> THEN 0 ELSE s[1] + sum_seq(Tail(s))

\* one row of TfidfTransformer.transform: the columns the row uses, weighted
tfidf_row(row, idf) ==
    [f \in 1..Len(row) |->
        IF row[f] = 0 THEN 0 ELSE (sublinear_tf(row[f]) * idf[f]) \div 10]

\* the dot product divided by the squared norms, the square root left out
cosine_similarity_squared_norms(u, v) ==
    LET dot == sum_seq([f \in 1..Len(u) |-> u[f] * v[f]])
        nu  == sum_seq([f \in 1..Len(u) |-> u[f] * u[f]])
        nv  == sum_seq([f \in 1..Len(v) |-> v[f] * v[f]])
    IN  IF nu * nv = 0 THEN 0 ELSE (10000 * dot) \div (nu * nv)

\* round(cosine_similarity(u, v), 4), in ten-thousandths
cosine_similarity(u, v) ==
    LET dot == sum_seq([f \in 1..Len(u) |-> u[f] * v[f]])
        nu  == sum_seq([f \in 1..Len(u) |-> u[f] * u[f]])
        nv  == sum_seq([f \in 1..Len(v) |-> v[f] * v[f]])
        r   == isqrt(nu * nv)
    IN  IF r = 0 THEN 0 ELSE (2 * 10000 * dot + r) \div (2 * r)

\* transform of X with the idf weights `idf', then the cosine of its two rows
transform_similarity(X, idf) ==
    cosine_similarity(tfidf_row(X[1], idf), tfidf_row(X[2], idf))

\* the columns of X that hold a count
used_columns(X) == {f \in 1..Len(X[1]) : X[1][f] > 0 \/ X[2][f] > 0}

\* what TfidfTransformer.transform(X) yields when the transformer holds `idf':
\* a score, or the exception raised. With idf weights of another length the
\* matrix product raises ValueError, and the indexed product raises IndexError
\* or weights the columns with the entries it finds.
transform_outcomes(X, idf) ==
    IF Len(idf) = Len(X[1])
    THEN {[exc |-> "", score |-> transform_similarity(X, idf)]}
    ELSE {[exc |-> "ValueError", score |-> 0]} \cup
         (IF used_columns(X) \subseteq 1..Len(idf)
          THEN {[exc |-> "", score |-> transform_similarity(
                    X, [f \in 1..Len(X[1]) |->
                           IF f <= Len(idf) THEN idf[f] ELSE 0])]}
          ELSE {[exc |-> "IndexError", score |-> 0]})

\* the scores of the form q.5 tenths of a percent whose float product
\* similarity_score * 100 lies nearer the upper tenth for round(.., 1):
\* the multiplication of the double nearest to score/10000 by 100 decides
\* each tie, so the direction of a tie follows no parity rule
HalfRoundsUp ==
    { 5, 35, 65, 75, 85, 105, 135, 145, 155, 165, 175, 205, 235, 245, 275,
      285, 335, 345, 375, 385, 395, 415, 445, 465, 475, 485, 495, 505, 545,
      565, 575, 585, 615, 645, 655, 665, 675, 685, 695, 775, 795, 805, 815,
      845, 855, 875, 915, 955, 965, 975, 995, 1005, 1015, 1065, 1075, 1105,
      1115, 1145, 1155, 1165, 1175, 1215, 1255, 1265, 1275, 1295, 1305, 1315,
      1335, 1345, 1355, 1365, 1375, 1385, 1395, 1405, 1475, 1515, 1555, 1565,
      1575, 1595, 1605, 1615, 1635, 1655, 1665, 1675, 1685, 1695, 1705, 1715,
      1775, 1805, 1835, 1855, 1875, 1885, 1905, 1935, 1955, 1965, 1975, 1985,
      1995, 2005, 2015, 2075, 2105, 2155, 2175, 2185, 2205, 2235, 2255, 2265,
      2275, 2285, 2305, 2315, 2335, 2375, 2405, 2455, 2475, 2485, 2505, 2535,
      2555, 2565, 2575, 2585, 2605, 2615, 2635, 2645, 2655, 2665, 2675, 2685,
      2695, 2705, 2715, 2725, 2735, 2745, 2755, 2765, 2775, 2785, 2795, 2805,
      2975, 3055, 3075, 3085, 3105, 3135, 3155, 3175, 3185, 3235, 3245, 3255,
      3275, 3285, 3295, 3305, 3335, 3345, 3355, 3365, 3375, 3385, 3395, 3405,
      3415, 3435, 3475, 3535, 3575, 3585, 3635, 3675, 3685, 3695, 3735, 3745,
      3775, 3785, 3795, 3835, 3845, 3855, 3875, 3885, 3895, 3905, 3935, 3945,
      3955, 3975, 3985, 3995, 4005, 4015, 4035, 4045, 4055, 4075, 4175, 4185,
      4235, 4275, 4285, 4295, 4335, 4345, 4375, 4385, 4395, 4435, 4445, 4475,
      4485, 4495, 4505, 4535, 4545, 4555, 4575, 4585, 4595, 4605, 4615, 4635,
      4645, 4655, 4665, 4675, 4685, 4775, 4785, 4835, 4875, 4885, 4935, 4945,
      4975, 4985, 4995, 5275, 5375, 5435, 5475, 5485, 5535, 5545, 5575, 5585,
      5595, 5635, 5645, 5675, 5685, 5695, 5735, 5745, 5755, 5775, 5785, 5795,
      5805, 5835, 5845, 5855, 5865, 5875, 5885, 5895, 5905, 5915, 5935, 5945,
      5955, 5965, 5975, 5985, 5995, 6005, 6015, 6035, 6045, 6055, 6065, 6075,
      6085, 6095, 6105, 6115, 6125, 6135, 6145, 6155, 6165, 6175, 6185, 6195,
      6205, 6215, 6225, 6235, 6245, 6445, 6475, 6495, 6545, 6575, 6595, 6645,
      6675, 6695, 6715, 6745, 6765, 6775, 6795, 6815, 6845, 6865, 6875, 6895,
      6915, 6945, 6965, 6975, 6995, 7015, 7045, 7065, 7075, 7085, 7095, 7115,
      7135, 7145, 7165, 7175, 7185, 7195, 7215, 7235, 7245, 7265, 7275, 7285,
      7295, 7315, 7335, 7345, 7355, 7365, 7375, 7385, 7395, 7405, 7415, 7435,
      7445, 7455, 7465, 7475, 7485, 7495, 7575, 7675, 7695, 7745, 7775, 7795,
      7845, 7875, 7895, 7945, 7965, 7975, 7995, 8015, 8045, 8065, 8075, 8095,
      8115, 8145, 8165, 8175, 8195, 8215, 8245, 8265, 8275, 8295, 8315, 8335,
      8345, 8365, 8375, 8385, 8395, 8415, 8435, 8445, 8465, 8475, 8485, 8495,
      8515, 8535, 8545, 8565, 8575, 8585, 8595, 8605, 8615, 8635, 8645, 8655,
      8665, 8675, 8685, 8695, 8705, 8715, 8735, 8745, 8775, 8875, 8945, 8975,
      8995, 9045, 9075, 9095, 9145, 9175, 9195, 9215, 9245, 9265, 9275, 9295,
      9315, 9345, 9365, 9375, 9395, 9415, 9445, 9465, 9475, 9495, 9515, 9545,
      9565, 9575, 9585, 9595, 9615, 9635, 9645, 9665, 9675, 9685, 9695, 9715,
      9735, 9745, 9765, 9775, 9785, 9795, 9815, 9835, 9845, 9855, 9865, 9875,
      9885, 9895, 9905, 9915, 9935, 9945, 9955, 9965, 9975, 9985, 9995 }

\* the percentage with the digits below a tenth cut off
match_percentage_truncated(score) == score \div 10

\* analyze, line 96: round(similarity_score * 100, 1), in tenths of a percent
match_percentage(score) ==
    LET q == score \div 10
        r == score % 10
    IN  IF r > 5 \/ (r = 5 /\ score \in HalfRoundsUp) THEN q + 1 ELSE q

-----------------------------------------------------------------------------
(* Bounds and inputs                                                       *)

MaxCleanLen == 4      \* longest text given to a stand-alone clean_text
MaxSkillLen == 4      \* longest text given to a stand-alone extract_skills
MaxRawLen   == 2      \* longest raw text of the single-request analyze
NThreads    == 2      \* request threads sharing the module-level matcher
MaxWords    == 3      \* most words of a word text of the single-request analyze
MaxPages    == 2      \* most pages of a file given to extract_text_from_pdf
MaxPageLen  == 2      \* longest text of one page
MaxConstructions == 5 \* most ResumeMatcher() calls of one thread
MaxOutside  == 5      \* how far beyond 0..100 % a stored percentage may lie

TextsUpTo(alphabet, n) == UNION {[1..k -> alphabet] : k \in 0..n}

CleanAlphabet == {"t", "T", "1", " ", "\n", "\t", "+", "-", "é"}
SkillAlphabet == {"c", "r", "R", "+", "#", " ", "-"}
RawAlphabet   == {"g", "o", "r", "#", " "}

CleanInputs == TextsUpTo(CleanAlphabet, MaxCleanLen) \cup {None}
SkillInputs == TextsUpTo(SkillAlphabet, MaxSkillLen) \cup {None}
RawInputs   == TextsUpTo(RawAlphabet, MaxRawLen) \cup {None}

\* texts of whole words: a repeated word, a second word and a stop word that
\* is also a skill, separated by single spaces
Words == << <<"g","g">>, <<"o","o">>, <<"g","o">> >>

RECURSIVE join_words(_)
join_words(ws) ==
    IF ws = <<>> THEN <<>>
    ELSE IF Len(ws) = 1 THEN Words[ws[1]]
    ELSE Words[ws[1]] \o <<" ">> \o join_words(Tail(ws))

WordInputs == {join_words(ws) : ws \in TextsUpTo(DOMAIN Words, MaxWords)}

\* the pairs of raw texts of one request
AnalyzeInputs == (RawInputs \X RawInputs) \cup (WordInputs \X WordInputs)

\* caller-supplied vocabularies: multi-word, repeated and unsorted entries
Vocabularies ==
    { VocabNone,
      << <<"r">>, <<"r"," ","c">>, <<"c">>, <<"r">> >>,
      << <<"r","c">>, <<"c","+","+">>, <<"R">>, <<"c","+","+">> >> }

\* the documents of the requests that share the matcher
DocLong  == <<"G","o",","," ","G","G"," ","o","o",";"," ","R">>  \* "Go, GG oo; R"
DocShort == <<"g","g"," ","r">>                                  \* "gg r"
DocStop  == <<"g","o">>                                          \* "go"
DocPunct == <<"-">>                                              \* "-"

\* the requests: <<resume text, job description>>
Requests ==
    { <<DocLong, DocShort>>, <<DocShort, DocLong>>, <<DocLong, DocLong>>,
      <<DocShort, DocStop>>, <<DocStop, DocStop>>,
      <<DocShort, DocPunct>>, <<DocPunct, DocLong>> }

Threads == 1..NThreads

-----------------------------------------------------------------------------
(* State                                                                   *)

IdleClean  == [pc |-> "idle", text |-> <<>>, ret |-> <<>>, again |-> <<>>]
IdleSkills == [pc |-> "idle", text |-> <<>>, vocabulary |-> VocabNone, ret |-> <<>>]
IdleCall   == [pc |-> "idle", raw |-> <<None, None>>, docs |-> << <<>>, <<>> >>,
               X |-> <<>>, score |-> 0, exc |-> "", result |-> <<>>]

\* ResumeMatcher.__new__: the vectorizer is created, not fitted
NewVectorizer == [vocabulary_ |-> <<>>, idf_ |-> <<>>]

Busy(t) == call[t].pc \in {"similarity", "tfidf_fit", "tfidf_transform", "skills"}

-----------------------------------------------------------------------------
(* Stand-alone calls of the pure functions                                 *)

CleanText ==
    /\ ct.pc = "call"
    /\ ct' = [ct EXCEPT !.pc = "returned", !.ret = clean_text(ct.text)]
    /\ UNCHANGED <<sk, vectorizer, call, site>>

CleanTextAgain ==
    /\ ct.pc = "returned"
    /\ ct' = [ct EXCEPT !.pc = "done", !.again = clean_text(ct.ret)]
    /\ UNCHANGED <<sk, vectorizer, call, site>>

ExtractSkills ==
    /\ sk.pc = "call"
    /\ sk' = [sk EXCEPT !.pc = "returned",
                        !.ret = extract_skills(sk.text, sk.vocabulary)]
    /\ UNCHANGED <<ct, vectorizer, call, site>>

-----------------------------------------------------------------------------
(* ResumeMatcher.analyze on the module-level matcher, one frame per thread *)

\* analyze, lines 81-82: both raw texts are cleaned
Analyze(t, resume_text_raw, job_text_raw) ==
    /\ ~Busy(t)
    /\ call' = [call EXCEPT ![t] =
                   [IdleCall EXCEPT !.pc = "similarity",
                                    !.raw = <<resume_text_raw, job_text_raw>>,
                                    !.docs = <<clean_text(resume_text_raw),
                                               clean_text(job_text_raw)>>]]
    /\ UNCHANGED <<ct, sk, vectorizer, site>>

\* the guard as `not resume_text and not job_text'
empty_input_both(resume_text, job_text) == resume_text = <<>> /\ job_text = <<>>

\* compute_similarity, line 56: not resume_text or not job_text
empty_input(resume_text, job_text) == resume_text = <<>> \/ job_text = <<>>

\* compute_similarity up to the term counts of fit_transform: the empty-input
\* return, the empty-vocabulary ValueError, or the counts and the new
\* vocabulary_; a build that makes a new TfidfTransformer per fit_transform
\* drops the idf weights here
ComputeSimilarity(t) ==
    /\ call[t].pc = "similarity"
    /\ LET docs == call[t].docs
           vocab == count_vocab(docs)
       IN  IF empty_input(docs[1], docs[2])
           THEN /\ call' = [call EXCEPT ![t].pc = "skills", ![t].score = 0]
                /\ UNCHANGED vectorizer
           ELSE \E fresh \in BOOLEAN :
                  LET idf == IF fresh THEN <<>> ELSE vectorizer.idf_
                  IN  IF vocab = <<>>
                      THEN /\ call' = [call EXCEPT ![t].pc = "raised",
                                                   ![t].exc = "ValueError"]
                           /\ vectorizer' = [vectorizer EXCEPT !.idf_ = idf]
                      ELSE /\ call' = [call EXCEPT ![t].pc = "tfidf_fit",
                                         ![t].X = count_matrix(docs, vocab)]
                           /\ vectorizer' = [vocabulary_ |-> vocab, idf_ |-> idf]
    /\ UNCHANGED <<ct, sk, site>>

\* fit_transform: self._tfidf.fit(X)
TfidfFit(t) ==
    /\ call[t].pc = "tfidf_fit"
    /\ vectorizer' = [vectorizer EXCEPT !.idf_ = tfidf_fit(call[t].X, @)]
    /\ call' = [call EXCEPT ![t].pc = "tfidf_transform"]
    /\ UNCHANGED <<ct, sk, site>>

\* fit_transform: self._tfidf.transform(X), then cosine_similarity and round
TfidfTransform(t) ==
    /\ call[t].pc = "tfidf_transform"
    /\ \E out \in transform_outcomes(call[t].X, vectorizer.idf_) :
          call' = [call EXCEPT ![t].pc = IF out.exc = "" THEN "skills" ELSE "raised",
                               ![t].score = out.score,
                               ![t].exc = out.exc]
    /\ UNCHANGED <<ct, sk, vectorizer, site>>

\* the missing skills as resume minus job
missing_skills_swapped(job_skills, resume_skills) ==
    sorted(set(resume_skills) \ set(job_skills))

\* analyze, line 92
missing_skills(job_skills, resume_skills) ==
    sorted(set(job_skills) \ set(resume_skills))

\* analyze, lines 88-100: the skills of the raw texts and the result record
AssembleResult(t) ==
    /\ call[t].pc = "skills"
    /\ LET resume_skills == extract_skills(call[t].raw[1], VocabNone)
           job_skills    == extract_skills(call[t].raw[2], VocabNone)
       IN  call' = [call EXCEPT
                ![t].pc = "returned",
                ![t].result =
                    [similarity_score |-> call[t].score,
                     match_percentage |-> match_percentage(call[t].score),
                     resume_skills    |-> resume_skills,
                     job_skills       |-> job_skills,
                     missing_skills   |-> missing_skills(job_skills, resume_skills)]]
    /\ UNCHANGED <<ct, sk, vectorizer, site>>

Step(t) ==
    \/ ComputeSimilarity(t)
    \/ TfidfFit(t)
    \/ TfidfTransform(t)
    \/ AssembleResult(t)

-----------------------------------------------------------------------------
(* text_processing.extract_text_from_pdf                                   *)

\* an uploaded file: what read() and fitz.open raise ("" for nothing) and the
\* text get_text() gives for each page
NoFile == [read |-> "", open |-> "", pages |-> <<>>]

PdfOf(text) == [read |-> "", open |-> "", pages |-> <<text>>]

CorruptPdf == [read |-> "", open |-> "FileDataError", pages |-> <<>>]

ScannedPdf == [read |-> "", open |-> "", pages |-> << <<>>, <<" ">> >>]

NoTextText == "The PDF appears to contain no extractable text."
InvalidPdfText == "The uploaded file is not a valid PDF or is corrupted."
FailedToProcessText == "Failed to process PDF"
AttributeErrorText == "module 'fitz' has no attribute 'fitz'"

NoOutcome == [exc |-> "", msg |-> "", text |-> <<>>]

\* "\n".join(text_parts)
RECURSIVE join_pages(_)
join_pages(text_parts) ==
    IF text_parts = <<>> THEN <<>>
    ELSE IF Len(text_parts) = 1 THEN text_parts[1]
    ELSE text_parts[1] \o <<"\n">> \o join_pages(Tail(text_parts))

\* the try block, lines 23-40: the text, or the exception that leaves it
pdf_try(file) ==
    LET full_text == join_pages(file.pages)
    IN  IF file.read # "" THEN [NoOutcome EXCEPT !.exc = file.read]
        ELSE IF file.open # "" THEN [NoOutcome EXCEPT !.exc = file.open]
        ELSE IF strip(full_text) = <<>>
             THEN [NoOutcome EXCEPT !.exc = "ValueError", !.msg = NoTextText]
        ELSE [NoOutcome EXCEPT !.text = full_text]

\* the except clauses, lines 42-47: `except fitz.fitz.FileDataError' is looked
\* up first for whatever left the try block, and the lookup itself raises
\* AttributeError on a PyMuPDF whose fitz package has no attribute fitz
extract_text_from_pdf(file, fitz_fitz) ==
    LET tried == pdf_try(file)
    IN  IF tried.exc = "" THEN tried
        ELSE IF ~fitz_fitz
             THEN [NoOutcome EXCEPT !.exc = "AttributeError", !.msg = AttributeErrorText]
        ELSE IF tried.exc = "FileDataError"
             THEN [NoOutcome EXCEPT !.exc = "ValueError", !.msg = InvalidPdfText]
        ELSE IF tried.exc = "ValueError" THEN tried
        ELSE [NoOutcome EXCEPT !.exc = "ValueError", !.msg = FailedToProcessText]

\* the PyMuPDF builds: with and without the submodule fitz.fitz
Builds == {[fitz_fitz |-> b] : b \in BOOLEAN}

IdlePdf == [pc |-> "idle", file |-> NoFile, out |-> NoOutcome]

ExtractTextFromPdf ==
    /\ pdf.pc = "call"
    /\ pdf' = [pdf EXCEPT !.pc = "returned",
                          !.out = extract_text_from_pdf(pdf.file, build.fitz_fitz)]
    /\ UNCHANGED <<ct, sk, vectorizer, call, req, db, build, cls, band>>

-----------------------------------------------------------------------------
(* views.upload_resume and views.view_results; every thread serves one     *)
(* request, so the table holds at most NThreads records                    *)

SuccessText == "Analysis complete!"
GenericErrorText == "An unexpected error occurred during analysis. Please try again."
\* str(e) of the ValueError fit_transform raises
VectorizerErrorText == "empty vocabulary; perhaps the documents only contain stop words"

NoResponse == [kind |-> "", pk |-> 0, common_skills |-> <<>>, extra_skills |-> <<>>]

IdleReq == [pc |-> "idle", view |-> "", method |-> "", valid |-> FALSE,
            file |-> NoFile, job_description |-> <<>>, extracted |-> NoOutcome,
            message |-> "", response |-> NoResponse]

\* lines 65-71: the upload page
RenderUpload == [NoResponse EXCEPT !.kind = "upload.html"]

\* the submitted forms: is_valid() and the cleaned resume_file, job_description
Forms ==
    {[valid |-> TRUE, resume_file |-> PdfOf(q[1]), job_description |-> q[2]] :
        q \in {<<DocShort, DocLong>>, <<DocLong, DocShort>>,
               <<DocStop, DocStop>>, <<DocShort, DocShort>>}}
    \cup {[valid |-> TRUE, resume_file |-> f, job_description |-> DocLong] :
             f \in {CorruptPdf, ScannedPdf}}
    \cup {[valid |-> FALSE, resume_file |-> PdfOf(DocShort), job_description |-> DocStop]}

\* upload_resume, lines 23-38: GET, an invalid form, or extraction and the
\* call of matcher.analyze; lines 54-61 for what extraction raises
UploadResume(t) ==
    /\ req[t].pc = "idle"
    /\ \E method \in {"GET", "POST"}, form \in Forms :
         LET entered == [IdleReq EXCEPT !.view = "upload_resume", !.method = method]
             posted == [entered EXCEPT !.valid = form.valid,
                                       !.file = form.resume_file,
                                       !.job_description = form.job_description]
             out == extract_text_from_pdf(form.resume_file, build.fitz_fitz)
         IN  IF method = "GET"
             THEN /\ req' = [req EXCEPT ![t] = [entered EXCEPT !.pc = "done",
                                                   !.response = RenderUpload]]
                  /\ UNCHANGED call
             ELSE IF ~form.valid
             THEN /\ req' = [req EXCEPT ![t] = [posted EXCEPT !.pc = "done",
                                                   !.response = RenderUpload]]
                  /\ UNCHANGED call
             ELSE IF out.exc # ""
             THEN /\ req' = [req EXCEPT ![t] =
                               [posted EXCEPT !.pc = "done",
                                   !.extracted = out,
                                   !.message = IF out.exc = "ValueError"
                                               THEN out.msg ELSE GenericErrorText,
                                   !.response = RenderUpload]]
                  /\ UNCHANGED call
             ELSE /\ req' = [req EXCEPT ![t] = [posted EXCEPT !.pc = "analyze",
                                                   !.extracted = out]]
                  /\ call' = [call EXCEPT ![t] =
                                [IdleCall EXCEPT !.pc = "similarity",
                                     !.raw = <<out.text, form.job_description>>,
                                     !.docs = <<clean_text(out.text),
                                                clean_text(form.job_description)>>]]
    /\ UNCHANGED <<ct, sk, vectorizer, db, pdf, build, cls, band>>

\* line 41 is reached whatever matcher.analyze raised
create_reached_after_error(extract_exc, analyze_exc) == extract_exc = ""

\* lines 30-41: AnalysisResult.objects.create is reached when neither
\* extract_text_from_pdf (line 32) nor matcher.analyze (line 38) raised
create_reached(extract_exc, analyze_exc) == extract_exc = "" /\ analyze_exc = ""

\* lines 41-49: the record of the results; a field no result supplies keeps
\* its default (models.py, lines 27-32)
new_record(file, job_description, frame) ==
    LET got == frame.pc = "returned"
    IN  [resume_file      |-> file,
         job_description  |-> job_description,
         similarity_score |-> IF got THEN frame.result.similarity_score ELSE 0,
         match_percentage |-> IF got THEN frame.result.match_percentage ELSE 0,
         resume_skills    |-> IF got THEN frame.result.resume_skills ELSE <<>>,
         job_skills       |-> IF got THEN frame.result.job_skills ELSE <<>>,
         missing_skills   |-> IF got THEN frame.result.missing_skills ELSE <<>>]

\* upload_resume after matcher.analyze, lines 38-71: the record, the success
\* message and the redirect, or the message of the except clause and the
\* upload page; objects.create itself may raise (the database)
FinishUpload(t) ==
    /\ req[t].pc = "analyze"
    /\ call[t].pc \in {"returned", "raised"}
    /\ LET analyze_exc == IF call[t].pc = "raised" THEN call[t].exc ELSE ""
       IN  IF create_reached(req[t].extracted.exc, analyze_exc)
           THEN \E saved \in BOOLEAN :
                  IF saved
                  THEN /\ db' = Append(db, new_record(req[t].file,
                                               req[t].job_description, call[t]))
                       /\ req' = [req EXCEPT ![t].pc = "done",
                                     ![t].message = SuccessText,
                                     ![t].response = [NoResponse EXCEPT
                                                        !.kind = "redirect",
                                                        !.pk = Len(db) + 1]]
                  ELSE /\ db' = db
                       /\ req' = [req EXCEPT ![t].pc = "done",
                                     ![t].message = GenericErrorText,
                                     ![t].response = RenderUpload]
           ELSE /\ db' = db
                /\ req' = [req EXCEPT ![t].pc = "done",
                              ![t].message = IF analyze_exc = "ValueError"
                                             THEN VectorizerErrorText
                                             ELSE GenericErrorText,
                              ![t].response = RenderUpload]
    /\ UNCHANGED <<ct, sk, vectorizer, call, pdf, build, cls, band>>

\* the resume-only skills as job minus resume
extra_skills_swapped(resume_skills, job_skills) ==
    sorted(set(job_skills) \ set(resume_skills))

\* view_results, lines 81-83
common_skills(resume_skills, job_skills) ==
    sorted(set(resume_skills) \cap set(job_skills))

\* view_results, lines 86-88
extra_skills(resume_skills, job_skills) ==
    sorted(set(resume_skills) \ set(job_skills))

\* view_results: the record of pk with its two derived lists, or 404
ViewResults(t) ==
    /\ req[t].pc = "idle"
    /\ \E pk \in 1..(NThreads + 1) :
         LET entered == [IdleReq EXCEPT !.pc = "done", !.view = "view_results",
                                        !.method = "GET"]
         IN  req' = [req EXCEPT ![t] =
               IF pk \in DOMAIN db
               THEN [entered EXCEPT !.response =
                       [kind |-> "results.html", pk |-> pk,
                        common_skills |-> common_skills(db[pk].resume_skills,
                                                        db[pk].job_skills),
                        extra_skills  |-> extra_skills(db[pk].resume_skills,
                                                       db[pk].job_skills)]]
               ELSE [entered EXCEPT !.response =
                       [NoResponse EXCEPT !.kind = "404", !.pk = pk]]]
    /\ UNCHANGED <<ct, sk, vectorizer, call, db, pdf, build, cls, band>>

-----------------------------------------------------------------------------
(* ResumeMatcher.__new__ and the module-level matcher                      *)

\* who constructs: 0 is the import of pipeline.py (line 104), the others are
\* the threads that call ResumeMatcher() once the module is imported
Importer == 0
Callers == {Importer} \cup Threads

IdleNew == [pc |-> "idle", ret |-> <<>>]

\* the class as defined, line 28: _instance = None (0), nothing made yet
DefinedClass ==
    [_instance |-> 0, objects |-> 0, _vectorizer |-> <<>>, vectorizers |-> 0,
     matcher |-> 0, new |-> [c \in Callers |-> IdleNew]]

\* pipeline.py imported: line 104 has made the one instance and its vectorizer
ImportedClass ==
    [_instance |-> 1, objects |-> 1, _vectorizer |-> <<1>>, vectorizers |-> 1,
     matcher |-> 1,
     new |-> [c \in Callers |->
                IF c = Importer THEN [pc |-> "idle", ret |-> << <<1, 1>> >>]
                ELSE IdleNew]]

\* the test of line 31 always taken
instance_missing_always(instance) == TRUE

\* __new__, line 31: cls._instance is None
instance_missing(instance) == instance = 0

\* ResumeMatcher() is entered: the import does it once, a thread only when the
\* module is imported; line 31 chooses the branch
NewTest(c) ==
    /\ cls.new[c].pc = "idle"
    /\ IF c = Importer THEN cls.matcher = 0
       ELSE cls.matcher # 0 /\ Len(cls.new[c].ret) < MaxConstructions
    /\ cls' = [cls EXCEPT !.new[c].pc =
                 IF instance_missing(cls._instance) THEN "create" ELSE "return"]
    /\ UNCHANGED <<ct, sk, vectorizer, call, req, db, pdf, build, band>>

\* line 32: cls._instance = super().__new__(cls)
NewCreate(c) ==
    /\ cls.new[c].pc = "create"
    /\ cls' = [cls EXCEPT !.objects = @ + 1,
                          !._instance = cls.objects + 1,
                          !._vectorizer = Append(@, 0),
                          !.new[c].pc = "vectorizer"]
    /\ UNCHANGED <<ct, sk, vectorizer, call, req, db, pdf, build, band>>

\* lines 33-38: cls._instance._vectorizer = TfidfVectorizer(...)
NewVectorizerObject(c) ==
    /\ cls.new[c].pc = "vectorizer"
    /\ cls' = [cls EXCEPT !.vectorizers = @ + 1,
                          !._vectorizer[cls._instance] = cls.vectorizers + 1,
                          !.new[c].pc = "return"]
    /\ UNCHANGED <<ct, sk, vectorizer, call, req, db, pdf, build, band>>

\* line 39: return cls._instance; line 104 binds it to matcher
NewReturn(c) ==
    /\ cls.new[c].pc = "return"
    /\ cls' = [cls EXCEPT
                 !.new[c] = [pc |-> "idle",
                             ret |-> Append(@.ret, <<cls._instance,
                                             cls._vectorizer[cls._instance]>>)],
                 !.matcher = IF c = Importer THEN cls._instance ELSE @]
    /\ UNCHANGED <<ct, sk, vectorizer, call, req, db, pdf, build, band>>

-----------------------------------------------------------------------------
(* AnalysisResult.score_label and score_color                              *)

\* score_label with the bands of 80 and 60 exchanged
score_label_swapped(percentage) ==
    IF percentage >= 600 THEN "Excellent"
    ELSE IF percentage >= 800 THEN "Good"
    ELSE IF percentage >= 400 THEN "Fair"
    ELSE IF percentage >= 200 THEN "Low"
    ELSE "Very Low"

\* models.py, lines 44-55; match_percentage in tenths of a percent
score_label(percentage) ==
    IF percentage >= 800 THEN "Excellent"
    ELSE IF percentage >= 600 THEN "Good"
    ELSE IF percentage >= 400 THEN "Fair"
    ELSE IF percentage >= 200 THEN "Low"
    ELSE "Very Low"

\* models.py, lines 57-68
score_color(percentage) ==
    IF percentage >= 800 THEN "score-excellent"
    ELSE IF percentage >= 600 THEN "score-good"
    ELSE IF percentage >= 400 THEN "score-fair"
    ELSE IF percentage >= 200 THEN "score-low"
    ELSE "score-very-low"

IdleBand == [pc |-> "idle", match_percentage |-> 0, score_label |-> "",
             score_color |-> ""]

\* a template reads both properties of one record
ScoreBand ==
    /\ band.pc = "call"
    /\ band' = [band EXCEPT !.pc = "returned",
                            !.score_label = score_label(band.match_percentage),
                            !.score_color = score_color(band.match_percentage)]
    /\ UNCHANGED <<ct, sk, vectorizer, call, req, db, pdf, build, cls>>

-----------------------------------------------------------------------------
(* Specifications                                                          *)

InitMatcher ==
    /\ vectorizer = NewVectorizer
    /\ call = [t \in Threads |-> IdleCall]

\* the site with pipeline.py imported, no request, no record; the build is
\* read by extract_text_from_pdf only, which these runs never call
InitSite ==
    /\ req = [t \in Threads |-> IdleReq]
    /\ db = <<>>
    /\ pdf = IdlePdf
    /\ build = [fitz_fitz |-> TRUE]
    /\ cls = ImportedClass
    /\ band = IdleBand

\* clean_text on every text up to MaxCleanLen, and on its own output
InitClean ==
    /\ ct \in {[IdleClean EXCEPT !.pc = "call", !.text = x] : x \in CleanInputs}
    /\ sk = IdleSkills
    /\ InitMatcher
    /\ InitSite

NextClean == CleanText \/ CleanTextAgain

SpecClean == InitClean /\ [][NextClean]_vars

\* extract_skills on every text up to MaxSkillLen with every vocabulary
InitSkills ==
    /\ ct = IdleClean
    /\ sk \in {[IdleSkills EXCEPT !.pc = "call", !.text = x, !.vocabulary = v] :
                  x \in SkillInputs, v \in Vocabularies}
    /\ InitMatcher
    /\ InitSite

NextSkills == ExtractSkills

SpecSkills == InitSkills /\ [][NextSkills]_vars

Init ==
    /\ ct = IdleClean
    /\ sk = IdleSkills
    /\ InitMatcher
    /\ InitSite

\* one request: analyze on every pair of raw texts up to MaxRawLen and on
\* every pair of word texts up to MaxWords
NextAnalyze ==
    \/ /\ call[1].pc = "idle"
       /\ \E q \in AnalyzeInputs : Analyze(1, q[1], q[2])
    \/ Step(1)

SpecAnalyze == Init /\ [][NextAnalyze]_vars

\* requests served one after another: a call starts when no other is running
NextSeq ==
    \E t \in Threads :
        \/ /\ \A u \in Threads : ~Busy(u)
           /\ \E q \in Requests : Analyze(t, q[1], q[2])
        \/ Step(t)

SpecSeq == Init /\ [][NextSeq]_vars

\* requests served by concurrent threads: the steps interleave in any order
Next ==
    \E t \in Threads :
        \/ \E q \in Requests : Analyze(t, q[1], q[2])
        \/ Step(t)

Spec == Init /\ [][Next]_vars

\* one request to the views on each of the concurrent threads, on either
\* build
InitWeb ==
    /\ ct = IdleClean
    /\ sk = IdleSkills
    /\ InitMatcher
    /\ req = [t \in Threads |-> IdleReq]
    /\ db = <<>>
    /\ pdf = IdlePdf
    /\ build \in Builds
    /\ cls = ImportedClass
    /\ band = IdleBand

NextWeb ==
    \E t \in Threads :
        \/ UploadResume(t)
        \/ Step(t)
        \/ FinishUpload(t)
        \/ ViewResults(t)

SpecWeb == InitWeb /\ [][NextWeb]_vars

\* extract_text_from_pdf on every file up to MaxPages pages, on either build
PageAlphabet == {"a", " "}

PdfFiles ==
    {[read |-> r, open |-> o, pages |-> p] :
        r \in {"", "OSError"},
        o \in {"", "FileDataError", "RuntimeError"},
        p \in TextsUpTo(TextsUpTo(PageAlphabet, MaxPageLen), MaxPages)}

InitPdf ==
    /\ ct = IdleClean
    /\ sk = IdleSkills
    /\ InitMatcher
    /\ req = [t \in Threads |-> IdleReq]
    /\ db = <<>>
    /\ pdf \in {[IdlePdf EXCEPT !.pc = "call", !.file = f] : f \in PdfFiles}
    /\ build \in Builds
    /\ cls = ImportedClass
    /\ band = IdleBand

NextPdf == ExtractTextFromPdf

SpecPdf == InitPdf /\ [][NextPdf]_vars

\* the import of pipeline.py, then ResumeMatcher() called by every thread
InitSingleton ==
    /\ ct = IdleClean
    /\ sk = IdleSkills
    /\ InitMatcher
    /\ req = [t \in Threads |-> IdleReq]
    /\ db = <<>>
    /\ pdf = IdlePdf
    /\ build = [fitz_fitz |-> TRUE]
    /\ cls = DefinedClass
    /\ band = IdleBand

NextSingleton ==
    \E c \in Callers :
        \/ NewTest(c)
        \/ NewCreate(c)
        \/ NewVectorizerObject(c)
        \/ NewReturn(c)

SpecSingleton == InitSingleton /\ [][NextSingleton]_vars

\* score_label and score_color on every percentage in tenths, and beyond
BandInputs == (0 - MaxOutside)..(1000 + MaxOutside)

InitBand ==
    /\ ct = IdleClean
    /\ sk = IdleSkills
    /\ InitMatcher
    /\ req = [t \in Threads |-> IdleReq]
    /\ db = <<>>
    /\ pdf = IdlePdf
    /\ build = [fitz_fitz |-> TRUE]
    /\ cls = ImportedClass
    /\ band \in {[IdleBand EXCEPT !.pc = "call", !.match_percentage = p] :
                   p \in BandInputs}

NextBand == ScoreBand

SpecBand == InitBand /\ [][NextBand]_vars

-----------------------------------------------------------------------------
(* Properties                                                              *)

Finished(t) == call[t].pc \in {"skills", "returned", "raised"}

\* compute_similarity run alone on its own two documents, with a vectorizer
\* nobody else touches
similarity_alone(docs) ==
    IF docs[1] = <<>> \/ docs[2] = <<>> THEN [exc |-> "", score |-> 0]
    ELSE IF count_vocab(docs) = <<>> THEN [exc |-> "ValueError", score |-> 0]
    ELSE LET X == count_matrix(docs, count_vocab(docs))
         IN  [exc |-> "", score |-> transform_similarity(X, tfidf_fit(X, <<>>))]

Outcome(t) == [exc |-> call[t].exc, score |-> call[t].score]

\* C1: with the calls of concurrent requests interleaved on the shared
\* vectorizer, every call that has left compute_similarity holds exactly the
\* outcome it has when run alone on its own two documents.
C1_ConcurrentCallsIsolated ==
    \A t \in Threads : Finished(t) => Outcome(t) = similarity_alone(call[t].docs)

ResultKeys == {"similarity_score", "match_percentage", "resume_skills",
               "job_skills", "missing_skills"}

\* C2: analyze never raises, whatever the two raw texts are, and what it
\* returns is a record of exactly the five result keys.
C2_AnalyzeNeverRaises ==
    \A t \in Threads :
        /\ call[t].pc # "raised"
        /\ call[t].pc = "returned" => DOMAIN call[t].result = ResultKeys

\* C3: with the requests served one after another, the outcome of a call is
\* the one its two documents have alone, whatever was scored before it, and
\* two calls on the same documents end with the same outcome.
C3_SequentialResultDependsOnlyOnDocs ==
    /\ \A t \in Threads :
          /\ Finished(t) => Outcome(t) = similarity_alone(call[t].docs)
          /\ call[t].pc = "returned" =>
                call[t].result.similarity_score = similarity_alone(call[t].docs).score
    /\ \A t, u \in Threads :
          (Finished(t) /\ Finished(u) /\ call[t].docs = call[u].docs)
              => Outcome(t) = Outcome(u)

\* two calls on different documents have both used the shared vectorizer and
\* returned, one of them with a score strictly between 0 and 1
C3_Witness ==
    \E t, u \in Threads :
        /\ call[t].pc = "returned" /\ call[u].pc = "returned"
        /\ call[t].docs # call[u].docs
        /\ call[t].X # <<>> /\ call[u].X # <<>>
        /\ call[t].result.similarity_score \in 1..9999

\* C4: a compute_similarity call with an empty argument returns 0.0 in the
\* step that enters it and leaves the shared vectorizer as it was.
C4_EmptyInputReturnsZeroUntouched ==
    [][\A t \in Threads :
          (/\ call[t].pc = "similarity"
           /\ call'[t] # call[t]
           /\ (call[t].docs[1] = <<>> \/ call[t].docs[2] = <<>>))
          => (/\ call'[t].pc = "skills"
              /\ call'[t].score = 0
              /\ call'[t].exc = ""
              /\ vectorizer' = vectorizer)]_vars

\* a call with exactly one empty argument has returned 0.0 on a matcher whose
\* vectorizer an earlier call has fitted
C4_Witness ==
    \E t \in Threads :
        /\ call[t].pc = "returned"
        /\ (call[t].docs[1] = <<>>) # (call[t].docs[2] = <<>>)
        /\ call[t].result.similarity_score = 0
        /\ vectorizer.vocabulary_ # <<>>
        /\ vectorizer.idf_ # <<>>

UsedVocabulary(vocabulary) ==
    IF vocabulary = VocabNone THEN SKILL_VOCABULARY ELSE vocabulary

IsAlnum(ch) == IsLetter(ch) \/ IsDigit(ch)

\* p occurs in s with no letter or digit right before and right after it
OccursAsWholeToken(p, s) ==
    \E i \in 1..Len(s) :
        /\ i + Len(p) - 1 <= Len(s)
        /\ SubSeq(s, i, i + Len(p) - 1) = p
        /\ (i = 1 \/ ~IsAlnum(s[i - 1]))
        /\ (i + Len(p) > Len(s) \/ ~IsAlnum(s[i + Len(p)]))

SkillsCallReturned == sk.pc = "returned" /\ sk.text # None /\ sk.text # <<>>

\* C5: every vocabulary entry that occurs in the matching-normalized text as
\* a whole token is reported, 'c++' and 'c#' included, also when a space or
\* the end of the text follows the symbol.
C5_EveryWholeTokenReported ==
    SkillsCallReturned =>
        LET vocab == UsedVocabulary(sk.vocabulary)
        IN  \A k \in 1..Len(vocab) :
               OccursAsWholeToken(lower(vocab[k]), normalize_for_matching(sk.text))
                   => vocab[k] \in set(sk.ret)

\* C6: an entry is reported only if its phrase occurs in the
\* matching-normalized text with no letter or digit right before and right
\* after it.
C6_OnlyWholeTokensReported ==
    SkillsCallReturned =>
        \A k \in 1..Len(sk.ret) :
            OccursAsWholeToken(lower(sk.ret[k]), normalize_for_matching(sk.text))

\* C7: the list extract_skills returns is strictly ascending (sorted, no
\* duplicates), holds only entries of the vocabulary used, and is empty for
\* an empty or None text.
C7_SortedDedupFromVocabulary ==
    sk.pc = "returned" =>
        /\ \A k \in 1..(Len(sk.ret) - 1) : StrLess(sk.ret[k], sk.ret[k + 1])
        /\ set(sk.ret) \subseteq set(UsedVocabulary(sk.vocabulary))
        /\ (sk.text = None \/ sk.text = <<>>) => sk.ret = <<>>

\* a caller-supplied vocabulary with a repeated entry, and a text in which
\* three of its entries, the repeated one among them, are found
C7_Witness ==
    /\ sk.pc = "returned"
    /\ sk.vocabulary # VocabNone
    /\ Len(sk.ret) = 3
    /\ <<"r">> \in set(sk.ret)

\* C8: the missing_skills of a result are the job skills that are not resume
\* skills, each once, in ascending order.
C8_MissingIsJobMinusResume ==
    \A t \in Threads :
        call[t].pc = "returned" =>
            LET res == call[t].result
            IN  /\ \A x \in set(res.missing_skills) :
                       x \in set(res.job_skills) /\ x \notin set(res.resume_skills)
                /\ \A x \in set(res.job_skills) :
                       x \notin set(res.resume_skills) => x \in set(res.missing_skills)
                /\ \A k \in 1..(Len(res.missing_skills) - 1) :
                       StrLess(res.missing_skills[k], res.missing_skills[k + 1])

\* a result with two job skills, one of them a resume skill, the other missing
C8_Witness ==
    \E t \in Threads :
        /\ call[t].pc = "returned"
        /\ Len(call[t].result.job_skills) = 2
        /\ Len(call[t].result.resume_skills) = 1
        /\ Len(call[t].result.missing_skills) = 1

\* C9: clean_text applied to its own output returns that output.
C9_CleanTextIdempotent == ct.pc = "done" => ct.again = ct.ret

\* a text that cleaning changed into a non-empty text with an inner space has
\* been cleaned twice
C9_Witness ==
    /\ ct.pc = "done"
    /\ ct.text # None /\ ct.text # ct.ret
    /\ Len(ct.ret) >= 3
    /\ \E i \in 1..Len(ct.ret) : ct.ret[i] = " "

CleanOutputChars == AsciiLower \cup AsciiDigit \cup {"+", "#", ".", " "}

\* only allowed characters, single spaces, no space at either end
CleanOutputShape(out) ==
    /\ \A i \in 1..Len(out) : out[i] \in CleanOutputChars
    /\ \A i \in 1..(Len(out) - 1) : ~(out[i] = " " /\ out[i + 1] = " ")
    /\ out # <<>> => (out[1] # " " /\ out[Len(out)] # " ")

NonSpace(s) == SelectSeq(s, LAMBDA ch : ch # " ")

C11_ScoreAndPercentageRanges ==
    /\ \A t \in Threads :
          call[t].pc = "returned" =>
             LET res == call[t].result
             IN  /\ res.similarity_score \in 0..10000
                 /\ res.match_percentage \in 0..1000
                 /\ 10 * res.match_percentage - res.similarity_score \in -5..5
    /\ match_percentage(7534) = 753

\* a returned score strictly between 0 and 1 whose percentage is rounded up
C11_Witness ==
    \E t \in Threads :
        /\ call[t].pc = "returned"
        /\ call[t].result.similarity_score \in 1..9999
        /\ 10 * call[t].result.match_percentage > call[t].result.similarity_score

\* the step in which request t of upload_resume gets its response
UploadAnswered(t) ==
    /\ req[t].pc # "done"
    /\ req'[t].pc = "done"
    /\ req'[t].view = "upload_resume"

\* C12: the AnalysisResult table changes only in the step that answers a
\* valid POST whose extraction and whose matcher.analyze both completed
\* without error, and then by exactly one record holding that analysis, to
\* whose results page the response redirects; every other answer of
\* upload_resume (GET, invalid form, extraction failure, analysis failure)
\* leaves the table as it is and does not redirect.
C12_RecordOnlyAfterSuccess ==
    [][ /\ \A t \in Threads :
             UploadAnswered(t) =>
               IF req'[t].response.kind = "redirect"
               THEN /\ req'[t].method = "POST" /\ req'[t].valid
                    /\ req[t].pc = "analyze"
                    /\ req[t].extracted.exc = ""
                    /\ call[t].pc = "returned"
                    /\ Len(db') = Len(db) + 1
                    /\ SubSeq(db', 1, Len(db)) = db
                    /\ req'[t].response.pk = Len(db')
                    /\ LET rec == db'[Len(db')]
                       IN  /\ rec.similarity_score = call[t].result.similarity_score
                           /\ rec.match_percentage = call[t].result.match_percentage
                           /\ rec.resume_skills = call[t].result.resume_skills
                           /\ rec.job_skills = call[t].result.job_skills
                           /\ rec.missing_skills = call[t].result.missing_skills
                           /\ rec.job_description = req[t].job_description
               ELSE db' = db
        /\ db' # db =>
             \E t \in Threads :
                 UploadAnswered(t) /\ req'[t].response.kind = "redirect" ]_vars

\* one upload has been saved and redirected while another, whose analysis
\* raised, got the upload page back
C12_Witness ==
    \E t, u \in Threads :
        /\ req[t].pc = "done" /\ req[t].response.kind = "redirect"
        /\ req[t].response.pk \in DOMAIN db
        /\ req[u].pc = "done" /\ req[u].view = "upload_resume"
        /\ call[u].pc = "raised"
        /\ req[u].response.kind = "upload.html"
        /\ Len(db) = 1

\* C13: a finished extract_text_from_pdf call has either returned a text with
\* at least one character that is not whitespace, or raised ValueError; it has
\* raised nothing else and returned no empty or blank text.
C13_TextOrValueError ==
    pdf.pc = "returned" =>
        \/ pdf.out.exc = "" /\ \E k \in DOMAIN pdf.out.text :
                                  pdf.out.text[k] \notin Whitespace
        \/ pdf.out.exc = "ValueError"

\* what the constructions so far have returned: <<instance, its vectorizer>>
Constructed ==
    UNION {{cls.new[c].ret[k] : k \in DOMAIN cls.new[c].ret} : c \in Callers}

\* C14: all constructions, the one of the import included, have returned one
\* and the same instance holding one and the same vectorizer; that instance
\* is the module-level matcher; at most one ResumeMatcher object and one
\* TfidfVectorizer object have ever been made, and a vectorizer exists as
\* soon as any construction has returned.
C14_SingleInstance ==
    /\ Cardinality(Constructed) <= 1
    /\ cls.objects <= 1
    /\ cls.vectorizers <= 1
    /\ \A made \in Constructed :
          /\ made[1] = cls._instance
          /\ made[1] = cls.matcher
          /\ made[2] = cls._vectorizer[cls._instance]
          /\ made[2] # 0
          /\ cls.vectorizers = 1

\* the import has bound matcher, one thread has constructed twice and
\* another thread once
C14_Witness ==
    /\ cls.matcher # 0
    /\ \E c, d \in Threads :
          c # d /\ Len(cls.new[c].ret) >= 2 /\ Len(cls.new[d].ret) >= 1

\* C15: a call of compute_similarity on two equal texts that hold at least
\* one term of the vectorizer (a token of two or more word characters that is
\* not a stop word) raises nothing and gives a score above 0.9.
C15_SelfSimilarityHigh ==
    \A t \in Threads :
        ( /\ Finished(t)
          /\ call[t].docs[1] = call[t].docs[2]
          /\ analyzer(call[t].docs[1]) # <<>> )
        => /\ call[t].pc # "raised"
           /\ call[t].exc = ""
           /\ call[t].score > 9000

\* a text of several terms, one of them repeated, compared with itself
C15_Witness ==
    \E t \in Threads :
        /\ call[t].pc = "returned"
        /\ call[t].docs[1] = call[t].docs[2]
        /\ Len(analyzer(call[t].docs[1])) >= 4
        /\ \E term \in set(analyzer(call[t].docs[1])) :
               term_count(term, analyzer(call[t].docs[1])) >= 2
        /\ call[t].result.similarity_score = 10000

BandLabels == <<"Excellent", "Good", "Fair", "Low", "Very Low">>
BandColors == <<"score-excellent", "score-good", "score-fair", "score-low",
                "score-very-low">>

\* C16: for every stored match_percentage exactly one of the five bands
\* (>= 80, >= 60, >= 40, >= 20, below) applies, score_label returns the label
\* of that band and score_color the colour of the same band.
C16_LabelAndColorSameBand ==
    band.pc = "returned" =>
        LET p == band.match_percentage
            applying == {b \in 1..5 :
                           \/ b = 1 /\ p >= 800
                           \/ b = 2 /\ p >= 600 /\ p < 800
                           \/ b = 3 /\ p >= 400 /\ p < 600
                           \/ b = 4 /\ p >= 200 /\ p < 400
                           \/ b = 5 /\ p < 200}
        IN  /\ Cardinality(applying) = 1
            /\ \A b \in applying :
                  /\ band.score_label = BandLabels[b]
                  /\ band.score_color = BandColors[b]

\* both properties read at the lower edge of the band 'Good'
C16_Witness ==
    /\ band.pc = "returned"
    /\ band.match_percentage = 600
    /\ band.score_label = "Good"
    /\ band.score_color = "score-good"

\* the messages extract_text_from_pdf words
PdfErrorTexts == {NoTextText, InvalidPdfText, FailedToProcessText}

\* C17: in every answer of upload_resume, a PDF error text is shown only if
\* extract_text_from_pdf raised, and if matcher.analyze raised the message
\* shown is the generic 'An unexpected error occurred during analysis'.
C17_AnalysisFailureIsGeneric ==
    \A t \in Threads :
        (req[t].pc = "done" /\ req[t].view = "upload_resume") =>
            /\ req[t].message \in PdfErrorTexts => req[t].extracted.exc # ""
            /\ call[t].pc = "raised" => req[t].message = GenericErrorText

\* C18: on every results page the lists common_skills and extra_skills of
\* the response and missing_skills of the record shown share no skill
\* pairwise, common with missing is exactly the record's job_skills and
\* common with extra is exactly its resume_skills.
C18_DerivedListsPartitionSkills ==
    \A t \in Threads :
        (req[t].pc = "done" /\ req[t].response.kind = "results.html") =>
            LET analysis == db[req[t].response.pk]
                common   == set(req[t].response.common_skills)
                extra    == set(req[t].response.extra_skills)
                missing  == set(analysis.missing_skills)
            IN  /\ common \cap extra = {}
                /\ common \cap missing = {}
                /\ extra \cap missing = {}
                /\ common \cup missing = set(analysis.job_skills)
                /\ common \cup extra = set(analysis.resume_skills)

\* the results page of a record with a common and a missing skill, opened
\* by one thread after the upload of another was redirected to it
C18_Witness ==
    \E t, u \in Threads :
        /\ req[t].pc = "done" /\ req[t].response.kind = "results.html"
        /\ req[t].response.common_skills # <<>>
        /\ db[req[t].response.pk].missing_skills # <<>>
        /\ req[u].pc = "done" /\ req[u].response.kind = "redirect"
        /\ req[u].response.pk = req[t].response.pk

====
